---------------------------- MODULE Spec2Model ----------------------------
(***************************************************************************)
(* NN-Downloader: the GUI job queue (gui/tkinter_app.py), the job identity *)
(* key (DownloadTask.get_unique_key) and the tag downloaders' pagination   *)
(* loops (e621 family, Furbooru, Rule34).                                  *)
(*                                                                         *)
(* A text (a Python str) is a sequence of tokens; a token is a one-element *)
(* string standing for a character, or for an indivisible substring such   *)
(* as "https://".  None of an Optional[int] is <<>>, a value n is <<n>>.   *)
(***************************************************************************)
EXTENDS Integers, Sequences, FiniteSets, TLC

VARIABLES
    \* ---- the application (TkinterApp) ----
    HAS_ASYNC_DEPS,         \* module flag: aiohttp/aiofiles and the downloaders import
    loop_pc,                \* position of the loop thread (run_loop)
    config_manager,         \* TRUE once self.config_manager is set (not None)
    tasks,                  \* the DownloadTask objects accepted so far, by task id
    download_queue,         \* self.download_queue (queue.Queue): task ids, head first
    is_downloading,         \* self.is_downloading
    current_download_info,  \* self.current_download_info: a task id, or NoTask
    queue_listbox,          \* rows of self.queue_listbox
    coroutines,             \* tasks whose _start_*_download coroutine is on the loop
    after_queue,            \* root.after(0, _download_completed(task, result)) pending
    ui,                     \* stack of open modal dialogs (innermost last)
    started,                \* history: tasks made current, in order
    removed,                \* history: tasks the user removed or cleared
    completions,            \* history: the calls of _download_completed, in order
    \* ---- DownloadTask.get_unique_key on its own ----
    key_task,               \* a job
    key_variant,            \* the same job with its query text rewritten
    key_edits,              \* number of rewrites applied
    \* ---- one downloader at a time (download_by_tags) ----
    config,                 \* self.config: blacklisted_tags, oneTimeDownload, apiKey
    job,                    \* the arguments of the running, or last, download_by_tags
    dl_pc,                  \* "idle", "loop" (top of while True), "download", "sleep"
    page,                   \* page
    downloaded_ids,         \* downloaded_ids, as loaded when the job started
    posts,                  \* the posts (images) of the fetched page, once it is past
                            \* the "No images found" test
    page_approved,          \* the approved list handed to _download_page_images
    item_index,             \* position of _download_page_images in that list
    db_files,               \* the files db/<name>.db: file name -> text
    runs,                   \* number of jobs started
    iterations,             \* iterations of the page loops begun, over all jobs
    requests,               \* history: number of page-listing requests of this job
    attempted,              \* history: the image_ids download_file was called for, in this job
    appended,               \* history: the [site, image_id] written to a seen-ID file
    prior,                  \* history: appended, as it was when this job started
    dl_result,              \* return value of the last job: <<>>, <<TRUE>> or <<FALSE>>
    files,                  \* the files under media/
    downloaded_count,       \* downloaded_count: of _download_page_images, or of
                            \* Rule34Downloader.download_by_tags
    answer,                 \* history: what the last request of this job was answered with
    raised,                 \* history: the exception raised in this job: "", "request",
                            \* "payload" or "callback"
    escaped,                \* history: an exception left the entry point of this job
    last_message,           \* history: the last message given to progress_callback
    slept,                  \* history: asyncio.sleep was awaited since the last
                            \* page-listing request of this job
    \* ---- the HTTP methods of BaseAsyncDownloader on their own ----
    client                  \* the downloader object, its call in progress and the files

appvars == <<HAS_ASYNC_DEPS, loop_pc, config_manager, tasks, download_queue,
             is_downloading, current_download_info, queue_listbox, coroutines,
             after_queue, ui, started, removed, completions>>
keyvars == <<key_task, key_variant, key_edits>>
dlvars == <<config, job, dl_pc, page, downloaded_ids, posts, page_approved, item_index, db_files,
            runs, iterations, requests, attempted, appended, prior, dl_result, files,
            downloaded_count, answer, raised, escaped, last_message, slept>>
clientvars == <<client>>

-----------------------------------------------------------------------------
(* Bounds of the model *)

MaxTasks == 3
MaxEdits == 3
MaxRuns == 2            \* jobs run one after the other
MaxFetches == 3         \* iterations of the page loops, over all jobs
MaxCalls == 3           \* calls of the HTTP methods, over all downloader objects
LusTotalPages == 2      \* total_pages of an answer of Luscious
FullPage == 2           \* items of a full page of the Rule34 API (limit=1000), scaled

-----------------------------------------------------------------------------
(* Texts *)

Whitespace == {" "}

\* str.lower(), per character
LowerChar(c) ==
    CASE c = "A" -> "a"
      [] c = "B" -> "b"
      [] c = "X" -> "x"
      [] OTHER -> c

Lower(s) == [i \in 1..Len(s) |-> LowerChar(s[i])]

RECURSIVE LStripSet(_, _)
LStripSet(s, cs) ==
    IF s # <<>> /\ Head(s) \in cs THEN LStripSet(Tail(s), cs) ELSE s

RECURSIVE RStripSet(_, _)
RStripSet(s, cs) ==
    IF s # <<>> /\ s[Len(s)] \in cs THEN RStripSet(SubSeq(s, 1, Len(s) - 1), cs) ELSE s

\* str.strip(): leading and trailing whitespace removed
Strip(s) == RStripSet(LStripSet(s, Whitespace), Whitespace)

\* str.rstrip('/'): every trailing slash removed
RStripSlash(s) == RStripSet(s, {"/"})

\* str.split(): the number of maximal runs of non-whitespace characters
WordCount(s) ==
    Cardinality({i \in 1..Len(s) :
        s[i] \notin Whitespace /\ (i = 1 \/ s[i - 1] \in Whitespace)})

DigitChar(d) ==
    CASE d = 0 -> "0" [] d = 1 -> "1" [] d = 2 -> "2" [] d = 3 -> "3" [] d = 4 -> "4"
      [] d = 5 -> "5" [] d = 6 -> "6" [] d = 7 -> "7" [] d = 8 -> "8" [] d = 9 -> "9"

RECURSIVE NatStr(_)
NatStr(n) == IF n < 10 THEN <<DigitChar(n)>> ELSE NatStr(n \div 10) \o <<DigitChar(n % 10)>>

\* str(n) of an int
IntStr(n) == IF n < 0 THEN <<"-">> \o NatStr(0 - n) ELSE NatStr(n)

Digits == {"0", "1", "2", "3", "4", "5", "6", "7", "8", "9"}

DigitVal(c) ==
    CASE c = "0" -> 0 [] c = "1" -> 1 [] c = "2" -> 2 [] c = "3" -> 3 [] c = "4" -> 4
      [] c = "5" -> 5 [] c = "6" -> 6 [] c = "7" -> 7 [] c = "8" -> 8 [] c = "9" -> 9

RECURSIVE NatVal(_)
NatVal(s) == IF s = <<>> THEN 0 ELSE 10 * NatVal(SubSeq(s, 1, Len(s) - 1)) + DigitVal(s[Len(s)])

\* int(text) raises ValueError unless the stripped text is an optional sign and digits
IntParseOk(text) ==
    LET t == Strip(text)
        d == IF t # <<>> /\ Head(t) \in {"-", "+"} THEN Tail(t) ELSE t
    IN  d # <<>> /\ \A i \in 1..Len(d) : d[i] \in Digits

\* int(text), where it does not raise
IntParse(text) ==
    LET t == Strip(text)
        d == IF t # <<>> /\ Head(t) \in {"-", "+"} THEN Tail(t) ELSE t
    IN  IF t # <<>> /\ Head(t) = "-" THEN 0 - NatVal(d) ELSE NatVal(d)

-----------------------------------------------------------------------------
(* DownloadTask *)

NoText == <<>>          \* url=None / tags=None
NoPages == <<>>         \* max_pages=None
NoTask == 0             \* current_download_info=None

UrlSites == {"luscious", "multporn", "yiffer"}
E6Sites == {"e621", "e6ai", "e926"}
TagSites == E6Sites \cup {"rule34", "furbooru"}

DownloadTask(site, task_type, url, tags, max_pages) ==
    [site |-> site, task_type |-> task_type, url |-> url, tags |-> tags,
     max_pages |-> max_pages, status |-> "pending"]

\* Python truthiness of an Optional[int]
Truthy(max_pages) == max_pages # NoPages /\ max_pages[1] # 0

\* The key as the f-string builds it: a flat text
get_unique_key(task) ==
    IF task.task_type = "url"
    THEN LET normalized_url == RStripSlash(Lower(task.url))
         IN  <<task.site, "|", "url", "|">> \o normalized_url
    ELSE LET tags_normalized == IF task.tags # NoText THEN Strip(Lower(task.tags)) ELSE <<>>
         IN  <<task.site, "|", "tags", "|">> \o tags_normalized \o <<"|">>
             \o (IF Truthy(task.max_pages) THEN IntStr(task.max_pages[1])
                 ELSE <<"unlimited">>)

\* DownloadTask.__eq__
TaskEq(a, b) == get_unique_key(a) = get_unique_key(b)

-----------------------------------------------------------------------------
(* TkinterApp._create_download_task: the task built from the input fields.   *)
(* An input is the contents of site_var, url_var, tags_var, max_pages_var.   *)

MaxTagCount == 40

site_urls(site) ==
    CASE site = "luscious" -> "luscious.net"
      [] site = "multporn" -> "multporn.net"
      [] site = "yiffer" -> "yiffer.xyz"

\* Up to the first messagebox.askyesno: "error" (showerror, return None),
\* "askyesno" (the dialog opens) or "go" (no dialog)
create_precheck(inp) ==
    IF inp.site = "" THEN "error"
    ELSE IF inp.site \in UrlSites
    THEN IF Strip(inp.url) = <<>> THEN "error"
         ELSE IF ~(inp.url[1] \in {"http://", "https://"}) THEN "error"
         ELSE IF \A i \in 1..Len(inp.url) : Lower(inp.url)[i] # site_urls(inp.site)
              THEN "askyesno"
         ELSE "go"
    ELSE IF Strip(inp.tags) = <<>> THEN "askyesno" ELSE "go"

\* After the dialog, if any, was answered yes: does a task come back?
create_ok(inp) ==
    IF inp.site \in UrlSites THEN TRUE
    ELSE /\ (Strip(inp.max_pages) # <<>> => IntParseOk(inp.max_pages))
         /\ ~(inp.site \in E6Sites /\ Strip(inp.tags) # <<>>
              /\ WordCount(inp.tags) > MaxTagCount)

\* The task that comes back
create_task(inp) ==
    IF inp.site \in UrlSites
    THEN DownloadTask(inp.site, "url", inp.url, NoText, NoPages)
    ELSE DownloadTask(inp.site, "tags", NoText, inp.tags,
                      IF Strip(inp.max_pages) # <<>> THEN <<IntParse(inp.max_pages)>>
                      ELSE NoPages)

-----------------------------------------------------------------------------
(* The handlers of TkinterApp, as functions of the application state         *)
(* S = [tasks, q, dl, cur, lb, co, aq, ui, log, removed, done].               *)

Here ==
    [tasks |-> tasks, q |-> download_queue, dl |-> is_downloading,
     cur |-> current_download_info, lb |-> queue_listbox, co |-> coroutines,
     aq |-> after_queue, ui |-> ui, log |-> started, removed |-> removed,
     done |-> completions]

NoInput == [site |-> "", url |-> <<>>, tags |-> <<>>, max_pages |-> <<>>]

\* An open modal dialog and what the blocked handler does when it closes
Frame(kind, handler, inp, task) ==
    [kind |-> kind, handler |-> handler, inp |-> inp, task |-> task]

\* self.loop and self.loop.is_running()
LoopRunning == loop_pc \in {"init", "forever"}

\* while not queue.empty(): temp_items.append(queue.get_nowait())
RECURSIVE DrainAll(_, _)
DrainAll(q, temp_items) ==
    IF q = <<>> THEN temp_items ELSE DrainAll(Tail(q), Append(temp_items, Head(q)))

\* A mutant of PutAll: the items are put back last first
RECURSIVE PutAllReversed(_, _)
PutAllReversed(q, temp_items) ==
    IF temp_items = <<>> THEN q
    ELSE PutAllReversed(Append(q, temp_items[Len(temp_items)]),
                        SubSeq(temp_items, 1, Len(temp_items) - 1))

\* for item in temp_items: queue.put(item)
RECURSIVE PutAll(_, _)
PutAll(q, temp_items) ==
    IF temp_items = <<>> THEN q ELSE PutAll(Append(q, Head(temp_items)), Tail(temp_items))

update_queue_display(S) ==
    LET temp_items == DrainAll(S.q, <<>>)
    IN  [S EXCEPT !.lb = (IF S.cur # NoTask THEN <<S.cur>> ELSE <<>>) \o temp_items,
                  !.q = PutAll(<<>>, temp_items)]

\* A mutant of _start_download_task: the status of the task is left as it is
start_download_task_status_kept(S, t) ==
    IF HAS_ASYNC_DEPS /\ ~config_manager
    THEN S
    ELSE LET S1 == update_queue_display(
                       [S EXCEPT !.dl = TRUE, !.cur = t, !.log = Append(@, t)])
         IN  IF LoopRunning
             THEN [S1 EXCEPT !.co = @ \cup {t}]
             ELSE [S1 EXCEPT !.ui = Append(@, Frame("showerror", "_start_download_task",
                                                      NoInput, t))]

\* A mutant of _start_download_task: without a running loop the job is left
\* as it is, current and never completed
start_download_task_no_fallback(S, t) ==
    IF HAS_ASYNC_DEPS /\ ~config_manager
    THEN S
    ELSE LET S1 == update_queue_display(
                       [S EXCEPT !.dl = TRUE, !.cur = t,
                                 !.tasks[t].status = "downloading",
                                 !.log = Append(@, t)])
         IN  IF LoopRunning THEN [S1 EXCEPT !.co = @ \cup {t}] ELSE S1

\* _start_download_task(task), up to the showerror dialog of its last branch
_start_download_task(S, t) ==
    IF HAS_ASYNC_DEPS /\ ~config_manager
    THEN S
    ELSE LET S1 == update_queue_display(
                       [S EXCEPT !.dl = TRUE, !.cur = t,
                                 !.tasks[t].status = "downloading",
                                 !.log = Append(@, t)])
         IN  IF LoopRunning
             THEN [S1 EXCEPT !.co = @ \cup {t}]
             ELSE [S1 EXCEPT !.ui = Append(@, Frame("showerror", "_start_download_task",
                                                      NoInput, t))]

\* A mutant of _process_next_in_queue: the newest queued task is taken
process_next_in_queue_newest(S) ==
    IF S.dl \/ S.q = <<>>
    THEN S
    ELSE _start_download_task([S EXCEPT !.q = SubSeq(@, 1, Len(@) - 1)], S.q[Len(S.q)])

_process_next_in_queue(S) ==
    IF S.dl \/ S.q = <<>>
    THEN S
    ELSE _start_download_task([S EXCEPT !.q = Tail(@)], Head(S.q))

\* A mutant of _download_completed: the next job of the queue is not started
download_completed_stops(S, t, success) ==
    update_queue_display(
        [S EXCEPT !.dl = FALSE, !.cur = NoTask,
                  !.tasks[t].status = IF success THEN "completed" ELSE "failed",
                  !.done = Append(@, [task |-> t, success |-> success,
                                      current |-> S.cur,
                                      next |-> IF S.q = <<>> THEN NoTask
                                               ELSE Head(S.q)])])

_download_completed(S, t, success) ==
    _process_next_in_queue(
        update_queue_display(
            [S EXCEPT !.dl = FALSE, !.cur = NoTask,
                      !.tasks[t].status = IF success THEN "completed" ELSE "failed",
                      !.done = Append(@, [task |-> t, success |-> success,
                                          current |-> S.cur,
                                          next |-> IF S.q = <<>> THEN NoTask
                                                   ELSE Head(S.q)])]))

\* A mutant of _is_duplicate_task: the current download is not compared
is_duplicate_task_queue_only(S, new_task) ==
    LET temp_items == DrainAll(S.q, <<>>)
    IN  [dup |-> \E i \in 1..Len(temp_items) : TaskEq(new_task, S.tasks[temp_items[i]]),
         q |-> PutAll(<<>>, temp_items)]

\* _is_duplicate_task(new_task): the answer, and the queue it leaves
_is_duplicate_task(S, new_task) ==
    IF S.cur # NoTask /\ TaskEq(new_task, S.tasks[S.cur])
    THEN [dup |-> TRUE, q |-> S.q]
    ELSE LET temp_items == DrainAll(S.q, <<>>)
         IN  [dup |-> \E i \in 1..Len(temp_items) : TaskEq(new_task, S.tasks[temp_items[i]]),
              q |-> PutAll(<<>>, temp_items)]

\* add_to_queue, from the task _create_download_task returned
add_to_queue_task(S, task) ==
    LET d == _is_duplicate_task(S, task)
        t == Len(S.tasks) + 1
    IN  IF d.dup
        THEN [S EXCEPT !.q = d.q]
        ELSE LET S1 == update_queue_display(
                           [S EXCEPT !.tasks = Append(@, task), !.q = Append(d.q, t)])
             IN  IF ~S1.dl THEN _process_next_in_queue(S1) ELSE S1

\* start_download with is_downloading false, from the task _create_download_task
\* returned
start_download_task(S, task) ==
    LET d == _is_duplicate_task(S, task)
        t == Len(S.tasks) + 1
    IN  IF d.dup
        THEN [S EXCEPT !.q = d.q]
        ELSE LET S1 == _start_download_task(
                           [S EXCEPT !.tasks = Append(@, task), !.q = d.q], t)
             IN  \* a task that was turned away is referenced by nothing
                 IF S1.cur = t THEN S1 ELSE [S1 EXCEPT !.tasks = S.tasks]

\* A handler from the point where _create_download_task has passed its dialog
after_create(S, handler, inp) ==
    IF ~create_ok(inp) THEN S
    ELSE IF handler = "add_to_queue" THEN add_to_queue_task(S, create_task(inp))
    ELSE start_download_task(S, create_task(inp))

\* A handler up to the dialog of _create_download_task
through_create(S, handler, inp) ==
    IF ~HAS_ASYNC_DEPS THEN S
    ELSE CASE create_precheck(inp) = "error" -> S
           [] create_precheck(inp) = "askyesno" ->
                [S EXCEPT !.ui = Append(@, Frame("askyesno", handler, inp, NoTask))]
           [] OTHER -> after_create(S, handler, inp)

add_to_queue(S, inp) == through_create(S, "add_to_queue", inp)

\* A mutant of start_download: is_downloading is not consulted
start_download_unchecked(S, inp) ==
    IF ~HAS_ASYNC_DEPS THEN S ELSE through_create(S, "start_download", inp)

start_download(S, inp) ==
    IF ~HAS_ASYNC_DEPS THEN S
    ELSE IF S.dl THEN add_to_queue(S, inp)
    ELSE through_create(S, "start_download", inp)

clear_queue(S) ==
    update_queue_display([S EXCEPT !.q = <<>>,
                                   !.removed = @ \cup {S.q[i] : i \in 1..Len(S.q)}])

\* A mutant of remove_selected_from_queue: the row of the current download is
\* not told apart from the queued rows
remove_selected_from_queue_any_row(S, selected_index) ==
    LET kept == {i \in 1..Len(S.q) : i - 1 # selected_index}
        temp_items == [j \in 1..Cardinality(kept) |->
                         S.q[CHOOSE i \in kept : Cardinality({k \in kept : k < i}) = j - 1]]
    IN  [S EXCEPT !.q = PutAll(<<>>, temp_items),
                  !.removed = @ \cup {S.q[i] : i \in (1..Len(S.q)) \ kept}]

\* remove_selected_from_queue with row selected_index of the listbox selected
remove_selected_from_queue(S, selected_index) ==
    IF S.cur # NoTask /\ selected_index = 0
    THEN S
    ELSE LET queue_index == IF S.cur # NoTask THEN selected_index - 1 ELSE selected_index
             kept == {i \in 1..Len(S.q) : i - 1 # queue_index}
             temp_items == [j \in 1..Cardinality(kept) |->
                              S.q[CHOOSE i \in kept : Cardinality({k \in kept : k < i}) = j - 1]]
         IN  IF queue_index >= 0
             THEN [S EXCEPT !.q = PutAll(<<>>, temp_items),
                            !.removed = @ \cup {S.q[i] : i \in (1..Len(S.q)) \ kept}]
             ELSE S

-----------------------------------------------------------------------------
(* The application as a state machine *)

Become(S) ==
    /\ tasks' = S.tasks
    /\ download_queue' = S.q
    /\ is_downloading' = S.dl
    /\ current_download_info' = S.cur
    /\ queue_listbox' = S.lb
    /\ coroutines' = S.co
    /\ after_queue' = S.aq
    /\ ui' = S.ui
    /\ started' = S.log
    /\ removed' = S.removed
    /\ completions' = S.done

\* What the user can type into the fields
InputSites == {"e621", "luscious"}
InputTags == {<<"a">>, <<"A", " ">>, <<>>}
InputPages == {<<>>, <<"x">>}
InputUrls == {<<"https://", "luscious.net", "/", "x">>,
              <<"https://", "luscious.net", "/", "X", "/">>}

Inputs ==
    {[site |-> s, url |-> <<>>, tags |-> t, max_pages |-> p] :
        s \in InputSites \cap TagSites, t \in InputTags, p \in InputPages}
    \cup {[site |-> s, url |-> u, tags |-> <<>>, max_pages |-> <<>>] :
        s \in InputSites \cap UrlSites, u \in InputUrls}

\* The positional parameters, besides self, of the constructor of a site's
\* downloader: E621Downloader.__init__ and FurbooruDownloader.__init__ declare
\* progress_callback only, the other classes inherit
\* BaseAsyncDownloader.__init__(progress_callback, proxy_list, use_proxies)
InitParameters(site) == IF site \in E6Sites \cup {"furbooru"} THEN 1 ELSE 3

\* Every download_* wrapper constructs its downloader with
\* (progress_callback, proxy_list, use_proxies)
WrapperArguments == 3

\* The constructor call of a wrapper binds its arguments; otherwise TypeError
constructs(site) == WrapperArguments <= InitParameters(site)

\* What a downloader started for the site can end with: its boolean, or an
\* exception (reported as failure).  A wrapper whose constructor call raises
\* never returns a boolean.
DownloaderResults(site) ==
    IF constructs(site) THEN BOOLEAN ELSE {FALSE}

AppInit ==
    /\ HAS_ASYNC_DEPS \in BOOLEAN
    /\ loop_pc = "start"
    /\ config_manager = FALSE
    /\ tasks = <<>>
    /\ download_queue = <<>>
    /\ is_downloading = FALSE
    /\ current_download_info = NoTask
    /\ queue_listbox = <<>>
    /\ coroutines = {}
    /\ after_queue = <<>>
    /\ ui = <<>>
    /\ started = <<>>
    /\ removed = {}
    /\ completions = <<>>

\* run_loop: new_event_loop, run_until_complete(init_components()), run_forever
LoopThread ==
    /\ HAS_ASYNC_DEPS
    /\ \/ loop_pc = "start" /\ loop_pc' = "init" /\ UNCHANGED config_manager
       \/ loop_pc = "init" /\ ~config_manager /\ config_manager' = TRUE /\ UNCHANGED loop_pc
       \/ loop_pc = "init" /\ config_manager /\ loop_pc' = "gap" /\ UNCHANGED config_manager
       \/ loop_pc = "gap" /\ loop_pc' = "forever" /\ UNCHANGED config_manager
    /\ UNCHANGED <<HAS_ASYNC_DEPS, tasks, download_queue, is_downloading,
                   current_download_info, queue_listbox, coroutines, after_queue, ui,
                   started, removed, completions>>
    /\ UNCHANGED <<keyvars, dlvars, clientvars>>

AppFrame ==
    UNCHANGED <<HAS_ASYNC_DEPS, loop_pc, config_manager>>
    /\ UNCHANGED <<keyvars, dlvars, clientvars>>

\* The "Add to Queue" button
AddToQueue(inp) ==
    /\ ui = <<>> /\ Len(tasks) < MaxTasks
    /\ Become(add_to_queue(Here, inp))
    /\ AppFrame

\* The "Start Download" button
StartDownload(inp) ==
    /\ ui = <<>> /\ Len(tasks) < MaxTasks
    /\ Become(start_download(Here, inp))
    /\ AppFrame

\* The askyesno dialog of _create_download_task is answered
AnswerDialog(yes) ==
    /\ ui # <<>> /\ ui[Len(ui)].kind = "askyesno"
    /\ LET top == ui[Len(ui)]
           S == [Here EXCEPT !.ui = SubSeq(ui, 1, Len(ui) - 1)]
       IN  Become(IF yes THEN after_create(S, top.handler, top.inp) ELSE S)
    /\ AppFrame

\* The showerror dialog of _start_download_task is closed: _download_completed(task, False)
DismissError ==
    /\ ui # <<>> /\ ui[Len(ui)].kind = "showerror"
    /\ LET top == ui[Len(ui)]
           S == [Here EXCEPT !.ui = SubSeq(ui, 1, Len(ui) - 1)]
       IN  Become(_download_completed(S, top.task, FALSE))
    /\ AppFrame

\* The "Clear Queue" button
ClearQueue ==
    /\ ui = <<>>
    /\ Become(clear_queue(Here))
    /\ AppFrame

\* The "Remove Selected" button, with one row of the listbox selected
RemoveSelected(selected_index) ==
    /\ ui = <<>>
    /\ selected_index \in 0..(Len(queue_listbox) - 1)
    /\ Become(remove_selected_from_queue(Here, selected_index))
    /\ AppFrame

\* A _start_tag_download / _start_url_download coroutine ends on the loop and
\* schedules root.after(0, _download_completed(task, result))
CoroutineEnds(t, result) ==
    /\ t \in coroutines /\ LoopRunning
    /\ result \in DownloaderResults(tasks[t].site)
    /\ coroutines' = coroutines \ {t}
    /\ after_queue' = Append(after_queue, [task |-> t, success |-> result])
    /\ UNCHANGED <<HAS_ASYNC_DEPS, loop_pc, config_manager, tasks, download_queue,
                   is_downloading, current_download_info, queue_listbox, ui, started,
                   removed, completions>>
    /\ UNCHANGED <<keyvars, dlvars, clientvars>>

\* The Tk event loop (the main loop or a dialog's) runs the oldest root.after callback
AfterCallback ==
    /\ after_queue # <<>>
    /\ LET cb == Head(after_queue)
       IN  Become(_download_completed([Here EXCEPT !.aq = Tail(@)], cb.task, cb.success))
    /\ AppFrame

AppNext ==
    \/ LoopThread
    \/ \E inp \in Inputs : AddToQueue(inp)
    \/ \E inp \in Inputs : StartDownload(inp)
    \/ \E yes \in BOOLEAN : AnswerDialog(yes)
    \/ DismissError
    \/ ClearQueue
    \/ \E i \in 0..(Len(queue_listbox) - 1) : RemoveSelected(i)
    \/ \E t \in 1..MaxTasks, r \in BOOLEAN : CoroutineEnds(t, r)
    \/ AfterCallback

-----------------------------------------------------------------------------
(* DownloadTask.get_unique_key on its own: a job, and the same job with its  *)
(* query text rewritten in letter case, outer whitespace or a final slash,   *)
(* as long as _create_download_task still accepts the text.                  *)

KeySites == {"e621", "luscious"}
KeyTags == {<<"a">>, <<"a", " ", "B">>, <<"X">>}
KeyPages == {<<>>, <<"1">>, <<"0">>}
KeyUrls == {<<"https://", "luscious.net", "/", "x">>, <<"https://", "X">>}

KeyInputs ==
    {[site |-> s, url |-> <<>>, tags |-> t, max_pages |-> p] :
        s \in KeySites \cap TagSites, t \in KeyTags, p \in KeyPages}
    \cup {[site |-> s, url |-> u, tags |-> <<>>, max_pages |-> <<>>] :
        s \in KeySites \cap UrlSites, u \in KeyUrls}

Accepted(inp) == create_precheck(inp) # "error" /\ create_ok(inp)

\* The query field of an input
Query(inp) == IF inp.site \in UrlSites THEN inp.url ELSE inp.tags

WithQuery(inp, text) ==
    IF inp.site \in UrlSites THEN [inp EXCEPT !.url = text] ELSE [inp EXCEPT !.tags = text]

SwapCase(c) ==
    CASE c = "a" -> "A" [] c = "A" -> "a"
      [] c = "b" -> "B" [] c = "B" -> "b"
      [] c = "x" -> "X" [] c = "X" -> "x"
      [] OTHER -> c

KeyInit ==
    /\ key_task \in {inp \in KeyInputs : Accepted(inp)}
    /\ key_variant = key_task
    /\ key_edits = 0

Rewrite(text) ==
    /\ key_edits < MaxEdits
    /\ Accepted(WithQuery(key_variant, text))
    /\ key_variant' = WithQuery(key_variant, text)
    /\ key_edits' = key_edits + 1
    /\ UNCHANGED <<key_task, appvars, dlvars, clientvars>>

ChangeCase(i) ==
    /\ i \in 1..Len(Query(key_variant))
    /\ SwapCase(Query(key_variant)[i]) # Query(key_variant)[i]
    /\ Rewrite([Query(key_variant) EXCEPT ![i] = SwapCase(@)])

AddLeadingSpace == Rewrite(<<" ">> \o Query(key_variant))

AddTrailingSpace == Rewrite(Query(key_variant) \o <<" ">>)

AddTrailingSlash ==
    /\ key_variant.site \in UrlSites
    /\ Rewrite(Query(key_variant) \o <<"/">>)

KeyNext ==
    \/ \E i \in 1..(4 + MaxEdits) : ChangeCase(i)
    \/ AddLeadingSpace
    \/ AddTrailingSpace
    \/ AddTrailingSlash

-----------------------------------------------------------------------------
(* BaseAsyncDownloader: __init__, _get_proxy, fetch_page, fetch_json,        *)
(* post_json and download_file.                                              *)

ClientMethods == {"fetch_page", "fetch_json", "post_json", "download_file"}

\* The file paths download_file is called with
ClientPaths == {"a", "b"}

\* The proxy lists a downloader is constructed with
ProxyLists == {<<>>, <<"p1">>, <<"p1", "p2">>}

\* The status codes of a response
Statuses == {200, 404, 500}

\* No downloader object yet
NoClient ==
    [pc |-> "none", proxy_list |-> <<>>, use_proxies |-> FALSE, current_proxy_index |-> 0,
     method |-> "", path |-> "", proxy |-> <<>>, status |-> 0, failure |-> "",
     result |-> "", files |-> {}, whole |-> {}, calls |-> 0]

\* _get_proxy: None, or the next proxy of the list, in rotation
_get_proxy(c) ==
    IF ~c.use_proxies \/ c.proxy_list = <<>>
    THEN [proxy |-> <<>>, index |-> c.current_proxy_index]
    ELSE [proxy |-> <<c.proxy_list[c.current_proxy_index + 1]>>,
          index |-> (c.current_proxy_index + 1) % Len(c.proxy_list)]

\* What a method returns when it fails
Failing(method) == IF method = "download_file" THEN "False" ELSE "None"

\* A mutant of client_result: the reading of the body stands outside the try
client_result_unguarded(method, status, failure, null_body) ==
    IF failure = "body" THEN "raised"
    ELSE IF failure = "" /\ status = 200
    THEN IF method = "download_file" THEN "True" ELSE "value"
    ELSE Failing(method)

\* What a method returns: every exception is caught by `except Exception`,
\* a status other than 200 is printed, and after a 200 the body is returned
\* (None for a JSON null) or, for download_file, True once the file is written
client_result(method, status, failure, null_body) ==
    IF failure # "" THEN Failing(method)
    ELSE IF status = 200
    THEN IF method = "download_file" THEN "True"
         ELSE IF null_body /\ method \in {"fetch_json", "post_json"} THEN "None"
         ELSE "value"
    ELSE Failing(method)

ClientFrame == UNCHANGED <<appvars, keyvars, dlvars>>

\* __init__: a downloader object is made
Construct(proxy_list, use_proxies) ==
    /\ client.pc \in {"none", "idle"}
    /\ client' = [client EXCEPT !.pc = "idle", !.proxy_list = proxy_list,
                                !.use_proxies = use_proxies /\ Len(proxy_list) > 0,
                                !.current_proxy_index = 0, !.method = "", !.path = "",
                                !.proxy = <<>>, !.status = 0, !.failure = "",
                                !.result = ""]
    /\ ClientFrame

\* A method is called. download_file first calls progress_callback, inside
\* its try: when that raises, download_file returns False. Then the proxy is
\* chosen and the request is sent.
ClientCall(method, path, callback_raises) ==
    /\ client.pc = "idle" /\ client.calls < MaxCalls
    /\ (method = "download_file") = (path # "")
    /\ callback_raises => method = "download_file"
    /\ LET chosen == _get_proxy(client)
           c == [client EXCEPT !.method = method, !.path = path, !.status = 0,
                               !.calls = @ + 1, !.proxy = <<>>]
       IN  client' = IF callback_raises
                     THEN [c EXCEPT !.failure = "callback",
                                    !.result = client_result(method, 0, "callback", FALSE)]
                     ELSE [c EXCEPT !.pc = "requested", !.failure = "", !.result = "",
                                    !.proxy = chosen.proxy,
                                    !.current_proxy_index = chosen.index]
    /\ ClientFrame

\* The request ends: it raises ("request"), or a response comes with a
\* status. After a 200, download_file makes the directory and opens the file,
\* which may raise ("open"), and writes the chunks of the body; the reading or
\* the writing may raise ("body"), and then a part of the file is left.
ClientRespond(status, failure, null_body) ==
    /\ client.pc = "requested"
    /\ failure = "request" => status = 0
    /\ failure # "request" => status \in Statuses
    /\ failure \in {"open", "body"} => status = 200
    /\ failure = "open" => client.method = "download_file"
    /\ null_body => (status = 200 /\ failure = "" /\ client.method \in {"fetch_json", "post_json"})
    /\ LET written == client.method = "download_file" /\ status = 200
                      /\ failure \in {"", "body"}
       IN  client' = [client EXCEPT
                         !.pc = "idle", !.status = status, !.failure = failure,
                         !.result = client_result(client.method, status, failure, null_body),
                         !.files = IF written THEN @ \cup {client.path} ELSE @,
                         !.whole = IF written
                                   THEN (IF failure = "" THEN @ \cup {client.path}
                                         ELSE @ \ {client.path})
                                   ELSE @]
    /\ ClientFrame

ClientNext ==
    \/ \E proxy_list \in ProxyLists, use_proxies \in BOOLEAN : Construct(proxy_list, use_proxies)
    \/ \E method \in ClientMethods, path \in ClientPaths \cup {""},
          callback_raises \in BOOLEAN : ClientCall(method, path, callback_raises)
    \/ \E status \in Statuses \cup {0}, failure \in {"", "request", "open", "body"},
          null_body \in BOOLEAN : ClientRespond(status, failure, null_body)

-----------------------------------------------------------------------------
(* The tag downloaders of the e621 family and of Furbooru:                   *)
(* E621Downloader.download_by_tags and FurbooruDownloader.download_by_tags,  *)
(* with their _download_page_images.                                         *)

Range(q) == {q[i] : i \in 1..Len(q)}

RECURSIVE Concat(_)
Concat(ss) == IF ss = <<>> THEN <<>> ELSE Head(ss) \o Concat(Tail(ss))

\* Filter(q, keep): the elements of q whose position is in keep, in order
RECURSIVE Filter(_, _)
Filter(q, keep) ==
    IF q = <<>> THEN <<>>
    ELSE Filter(SubSeq(q, 1, Len(q) - 1), keep)
         \o (IF Len(q) \in keep THEN <<q[Len(q)]>> ELSE <<>>)

SomeUrl == <<"https://", "x">>

TagCategories ==
    {"general", "species", "character", "copyright", "artist", "director", "meta", "lore"}

\* A post of the e621 API with one tag, in one category
Post(id, url, category, tag) ==
    [id |-> id, file |-> [url |-> url, ext |-> <<"jpg">>],
     tags |-> [c \in TagCategories |-> IF c = category THEN <<tag>> ELSE <<>>]]

\* What the e621-family upstream may list
E6Posts ==
    {Post(1, SomeUrl, "general", "ok"),
     Post(2, SomeUrl, "species", "bad"),
     Post(3, SomeUrl, "artist", "bad"),
     Post(12, SomeUrl, "meta", "bad"),
     Post(5, <<>>, "general", "ok")}

\* An image of the Furbooru API
Image(id, hidden, full, tags) ==
    [id |-> id, hidden_from_users |-> hidden, representations |-> [full |-> full],
     format |-> <<"png">>, tags |-> tags]

\* What the Furbooru upstream may list
FurbooruImages ==
    {Image(1, FALSE, SomeUrl, <<"ok">>),
     Image(2, FALSE, SomeUrl, <<"ok", "bad">>),
     Image(12, TRUE, SomeUrl, <<"ok">>),
     Image(3, FALSE, <<>>, <<"ok">>)}

Upstream(site) == IF site = "furbooru" THEN FurbooruImages ELSE E6Posts

\* The pages an upstream may answer with: up to two posts, in the order of
\* their ids
Pages(site) ==
    {<<>>} \cup {<<a>> : a \in Upstream(site)}
           \cup {pair \in {<<a, b>> : a, b \in Upstream(site)} : pair[1].id < pair[2].id}

\* open(path, "r"): the lines of a text, without their line ends
RECURSIVE SplitLines(_)
SplitLines(text) ==
    IF text = <<>> THEN <<>>
    ELSE LET ends == {i \in 1..Len(text) : text[i] = "\n"}
             first == IF ends = {} THEN Len(text) + 1
                      ELSE CHOOSE i \in ends : \A j \in ends : i <= j
         IN  <<SubSeq(text, 1, first - 1)>> \o SplitLines(SubSeq(text, first + 1, Len(text)))

\* {line.strip() for line in f if line.strip()}
load_downloaded_ids(text) ==
    {Strip(line) : line \in Range(SplitLines(text))} \ {<<>>}

\* A mutant of db_append: the line end is left out
db_append_no_newline(text, image_id) == text \o image_id

\* db_writer.write(f"{image_id}\n")
db_append(text, image_id) == text \o image_id \o <<"\n">>

\* A mutant of post_tags: the e621 categories are taken on every site
post_tags_one_family(site, item) ==
    Concat(<<item.tags["general"], item.tags["species"], item.tags["character"],
             item.tags["copyright"], item.tags["artist"]>>)

\* The tags E621Downloader checks against the blacklist
post_tags(site, item) ==
    Concat(<<item.tags["general"], item.tags["species"], item.tags["character"]>>)
    \o (IF site = "e6ai"
        THEN item.tags["director"] \o item.tags["meta"]
        ELSE item.tags["copyright"] \o item.tags["artist"])

\* E621Downloader: is the post approved for download?
e621_approves(j, ids, item) ==
    /\ item.file.url # <<>>
    /\ Cardinality({b \in 1..Len(j.blacklist) :
                       j.blacklist[b] \in Range(post_tags(j.site, item))}) = 0
    /\ ~(j.db_file /\ IntStr(item.id) \in ids)

\* FurbooruDownloader: is the image approved for download?
furbooru_approves(j, ids, item) ==
    /\ ~item.hidden_from_users
    /\ ~(\E k \in 1..Len(item.tags) : item.tags[k] \in Range(j.blacklist))
    /\ item.representations.full # <<>>
    /\ ~(j.db_file /\ IntStr(item.id) \in ids)

\* The page_approved list of one page: image_id, image_address, image_format
approve_page(j, ids, listed) ==
    LET keep == {k \in 1..Len(listed) :
                    IF j.site = "furbooru" THEN furbooru_approves(j, ids, listed[k])
                    ELSE e621_approves(j, ids, listed[k])}
        data(item) ==
            [image_id |-> IntStr(item.id),
             image_address |-> IF j.site = "furbooru" THEN item.representations.full
                               ELSE item.file.url,
             image_format |-> IF j.site = "furbooru" THEN item.format ELSE item.file.ext]
    IN  [k \in 1..Len(Filter(listed, keep)) |-> data(Filter(listed, keep)[k])]

FetcherSites == E6Sites \cup {"furbooru"}

\* The configurations of the application
\* user_credentials[site]["apiKey"] of a credentialed site: "" by default
Credentials == {<<>>, <<"k">>}

Configs ==
    [blacklisted_tags : {<<>>, <<"bad">>}, oneTimeDownload : BOOLEAN, apiKey : Credentials]

\* The page limits a job can be started with
JobPages == {NoPages, <<1>>, <<2>>}

\* The tags a job can be started with
JobTags == {<<"a">>}

\* The arguments _start_tag_download calls the downloader with
Job(site, tags, max_pages) ==
    [site |-> site, tags |-> tags, blacklist |-> config.blacklisted_tags,
     max_pages |-> max_pages, db_file |-> config.oneTimeDownload]

NoJob ==
    [site |-> "", tags |-> <<>>, blacklist |-> <<>>, max_pages |-> NoPages,
     db_file |-> FALSE]

DlInit ==
    /\ config \in Configs
    /\ job = NoJob
    /\ dl_pc = "idle"
    /\ page = 0
    /\ downloaded_ids = {}
    /\ posts = <<>>
    /\ page_approved = <<>>
    /\ item_index = 0
    /\ db_files = [site \in FetcherSites |-> <<>>]
    /\ runs = 0
    /\ requests = 0
    /\ attempted = {}
    /\ appended = {}
    /\ prior = {}
    /\ dl_result = <<>>
    /\ files = {}
    /\ downloaded_count = 0
    /\ iterations = 0
    /\ answer = ""
    /\ raised = ""
    /\ escaped = FALSE
    /\ last_message = ""
    /\ slept = FALSE
    /\ client = NoClient

DlFrame == UNCHANGED <<appvars, keyvars, files, clientvars>>

\* download_by_tags is called: the seen IDs are loaded, page = 1
StartJob(j) ==
    /\ dl_pc = "idle" /\ runs < MaxRuns
    /\ job' = j
    /\ runs' = runs + 1
    /\ page' = 1
    /\ downloaded_ids' = IF j.db_file THEN load_downloaded_ids(db_files[j.site]) ELSE {}
    /\ attempted' = {}
    /\ prior' = appended
    /\ requests' = 0
    /\ answer' = ""
    /\ dl_result' = <<>>
    /\ raised' = ""
    /\ escaped' = FALSE
    /\ last_message' = "Starting"
    /\ slept' = FALSE
    /\ dl_pc' = "loop"
    /\ posts' = <<>>
    /\ UNCHANGED <<config, page_approved, item_index, downloaded_count, db_files, iterations,
                   appended>>
    /\ DlFrame

\* download_e621_tags / download_furbooru_tags, called as _start_tag_download
\* calls them: `async with Downloader(progress_callback, proxy_list,
\* use_proxies)` constructs the downloader and then awaits download_by_tags.
\* A constructor call that does not bind raises TypeError out of the wrapper
\* before the session is opened: no callback, no request, no boolean, and
\* download_by_tags is not entered (runs counts its calls).
download_tags(j) ==
    IF constructs(j.site)
    THEN StartJob(j)
    ELSE /\ dl_pc = "idle"
         /\ job' = j
         /\ page' = 0
         /\ attempted' = {}
         /\ prior' = appended
         /\ requests' = 0
         /\ answer' = ""
         /\ dl_result' = <<>>
         /\ raised' = "TypeError"
         /\ escaped' = TRUE
         /\ last_message' = ""
         /\ posts' = <<>>
         /\ UNCHANGED <<config, dl_pc, downloaded_ids, page_approved, item_index,
                        downloaded_count, db_files, runs, iterations, appended, slept>>
         /\ DlFrame

\* The job is over: its local variables are gone
Leave ==
    /\ dl_pc' = "idle"
    /\ downloaded_ids' = {}
    /\ page_approved' = <<>>
    /\ item_index' = 0
    /\ downloaded_count' = 0
    /\ slept' = FALSE
    /\ UNCHANGED <<config, job, page, db_files, runs, attempted, appended, prior>>
    /\ DlFrame

\* A mutant of after_loop: a job that went through its loop returns False
after_loop_false == FALSE

\* What download_by_tags returns once its loop was left by break: return True
after_loop == TRUE

\* The job returns: the loop was left by break ("Download complete", TRUE) or
\* the handler of download_by_tags caught an exception ("Error: ...", FALSE)
Return(value) ==
    /\ dl_result' = <<value>>
    /\ last_message' = IF value THEN "Download complete" ELSE "Error: "
    /\ UNCHANGED escaped
    /\ Leave

\* An iteration of while True begins
Iterate ==
    /\ dl_pc = "loop" /\ job.site \in FetcherSites /\ iterations < MaxFetches
    /\ iterations' = iterations + 1

\* A page-listing request is made
Request ==
    /\ Iterate
    /\ requests' = requests + 1

\* The request is answered with a status other than 200
FetchFails ==
    /\ Request
    /\ answer' = "none"
    /\ UNCHANGED <<raised, posts>>
    /\ Return(after_loop)

\* The request raises (a network error): the inner try prints it and breaks
FetchRaises ==
    /\ Request
    /\ answer' = "none"
    /\ raised' = "request"
    /\ UNCHANGED posts
    /\ Return(after_loop)

\* The e621 API answers that page 750 is the last
FetchHitsApiLimit ==
    /\ Request
    /\ job.site \in E6Sites
    /\ answer' = "limit"
    /\ UNCHANGED <<raised, posts>>
    /\ Return(after_loop)

\* The answer is not of the expected shape: the exception leaves the loop
FetchMalformed ==
    /\ Request
    /\ answer' = "malformed"
    /\ raised' = "payload"
    /\ UNCHANGED posts
    /\ Return(FALSE)

\* A mutant of no_posts: the test of Furbooru on every site
no_posts_by_total(site, listed, total) == total = 0

\* The test that ends the loop for want of posts: `not posts` (e621 family),
\* `data.get("total", 0) == 0` (Furbooru)
no_posts(site, listed, total) ==
    IF site = "furbooru" THEN total = 0 ELSE listed = <<>>

\* The answer lists posts (and, for Furbooru, a total)
FetchPage(listed, total) ==
    /\ Request
    /\ answer' = IF listed = <<>> THEN "empty" ELSE "items"
    /\ UNCHANGED raised
    /\ IF no_posts(job.site, listed, total)
       THEN UNCHANGED posts /\ Return(after_loop)
       ELSE IF Truthy(job.max_pages) /\ page >= job.max_pages[1]
       THEN posts' = listed /\ Return(after_loop)
       ELSE /\ posts' = listed
            /\ page_approved' = approve_page(job, downloaded_ids, listed)
            /\ item_index' = 1
            /\ downloaded_count' = 0
            /\ dl_pc' = IF page_approved' # <<>> THEN "download" ELSE "sleep"
            /\ last_message' = IF page_approved' # <<>> THEN "Downloading images"
                               ELSE "Page completed"
            /\ slept' = FALSE
            /\ UNCHANGED <<config, job, page, downloaded_ids, db_files, runs, attempted,
                           appended, prior, dl_result, escaped>>
            /\ DlFrame

\* A mutant of appends: the result of download_file is not looked at
appends_whatever(ok, db_file, written) == db_file /\ written

\* Is the ID appended to the seen-ID file? Only inside
\* "if await self.download_file(...)", with db_file, and unless the write fails
appends(ok, db_file, written) == ok /\ db_file /\ written

\* _download_page_images: download_file for the next approved item returns ok;
\* after success the ID is appended to the seen-ID file, unless that write fails
DownloadItem(ok, written) ==
    /\ dl_pc = "download"
    /\ LET data == page_approved[item_index]
           append == appends(ok, job.db_file, written)
       IN  /\ attempted' = attempted \cup {data.image_id}
           /\ downloaded_count' = IF ok THEN downloaded_count + 1 ELSE downloaded_count
           /\ last_message' = IF item_index < Len(page_approved) THEN "Downloaded i/n"
                              ELSE "Page completed"
           /\ db_files' = IF append
                          THEN [db_files EXCEPT ![job.site] = db_append(@, data.image_id)]
                          ELSE db_files
           /\ appended' = IF append
                          THEN appended \cup {[site |-> job.site, image_id |-> data.image_id]}
                          ELSE appended
    /\ item_index' = item_index + 1
    /\ dl_pc' = IF item_index < Len(page_approved) THEN "download" ELSE "sleep"
    /\ UNCHANGED <<config, job, page, downloaded_ids, posts, page_approved, runs,
                   iterations, requests, answer, prior, dl_result, raised, escaped, slept>>
    /\ DlFrame

\* page += 1, asyncio.sleep: the page is done with
Sleep ==
    /\ dl_pc = "sleep"
    /\ slept' = TRUE
    /\ page' = page + 1
    /\ posts' = <<>>
    /\ page_approved' = <<>>
    /\ item_index' = 0
    /\ downloaded_count' = 0
    /\ dl_pc' = "loop"
    /\ UNCHANGED <<config, job, downloaded_ids, db_files, runs, iterations, requests,
                   answer, attempted, appended, prior, dl_result, raised, escaped,
                   last_message>>
    /\ DlFrame

\* progress_callback raises at the top of the loop, on "Fetching page" (or,
\* before the first iteration, on "Starting"). The handler of download_by_tags
\* calls it again with "Error: ...": when that call raises too, the exception
\* leaves download_by_tags.
CallbackRaises(again) ==
    /\ Iterate
    /\ raised' = "callback"
    /\ IF again
       THEN escaped' = TRUE /\ UNCHANGED <<dl_result, last_message>>
       ELSE dl_result' = <<FALSE>> /\ last_message' = "Error: " /\ UNCHANGED escaped
    /\ UNCHANGED <<requests, answer, posts>>
    /\ Leave

DlNext ==
    \/ \E site \in FetcherSites, tags \in JobTags, max_pages \in JobPages :
          StartJob(Job(site, tags, max_pages))
    \/ FetchFails
    \/ FetchRaises
    \/ FetchHitsApiLimit
    \/ FetchMalformed
    \/ \E listed \in Pages(job.site), total \in 0..1 : FetchPage(listed, total)
    \/ \E ok \in BOOLEAN, written \in BOOLEAN : DownloadItem(ok, written)
    \/ Sleep
    \/ \E again \in BOOLEAN : CallbackRaises(again)

-----------------------------------------------------------------------------
(* The Rule34 downloader: download_rule34_tags and                           *)
(* Rule34Downloader.download_by_tags, with the download_file and the         *)
(* sanitize_filename of BaseAsyncDownloader.                                 *)

\* unsafe_chars of sanitize_filename (the NUL character and the backquote
\* left out)
UnsafeChars ==
    {"/", "\\", ":", "*", "?", "\"", "<", ">", "|", "$", "#", "@", "&", "%", "!",
     "^", "(", ")", "{", "}", "[", "]", "=", "+", "~", ",", ";"}

\* sanitize_filename: unsafe characters and spaces become "_", dots are
\* stripped from both ends, an empty name becomes "unnamed"
sanitize_filename(filename) ==
    LET replaced == [i \in 1..Len(filename) |->
                        IF filename[i] \in UnsafeChars \cup {" "} THEN "_" ELSE filename[i]]
        safe_name == RStripSet(LStripSet(replaced, {".", " "}), {".", " "})
    IN  IF safe_name = <<>> THEN <<"unnamed">> ELSE safe_name

\* name.split(".")[-1] if "." in name else "jpg"
file_ext(name) ==
    LET dots == {i \in 1..Len(name) : name[i] = "."}
    IN  IF dots = {} THEN <<"jpg">>
        ELSE SubSeq(name, (CHOOSE i \in dots : \A j \in dots : j <= i) + 1, Len(name))

\* A post of the Rule34 API
R34Post(keys, id, tags) ==
    [keys |-> keys, id |-> id, file_url |-> SomeUrl \o <<".", "png">>,
     image |-> <<"x", ".", "png">>, tags |-> tags]

\* What the Rule34 upstream may list
R34Posts ==
    {R34Post({"id", "file_url", "image", "tags"}, 1, <<"ok">>),
     R34Post({"id", "file_url", "tags"}, 2, <<"ok", "bad">>),
     R34Post({"id", "tags"}, 3, <<"ok">>)}

\* The non-empty pages the Rule34 API may answer with: up to a full page of
\* posts, in the order of their ids
R34Pages ==
    {listed \in UNION {[1..n -> R34Posts] : n \in 1..FullPage} :
        \A i, k \in 1..Len(listed) : i < k => listed[i].id < listed[k].id}

\* download_dir / f"{image_id}.{file_ext}"
file_path(tags, item) ==
    [dir |-> <<"rule34">> \o (IF sanitize_filename(tags) # <<>>
                              THEN sanitize_filename(tags) ELSE <<"all">>),
     name |-> IntStr(item.id) \o <<".">>
              \o (IF "image" \in item.keys THEN file_ext(item.image)
                  ELSE file_ext(item.file_url))]

\* A mutant of saved_any: the job returns True whatever it saved
saved_any_always(count) == TRUE

\* What a job of Rule34, Luscious, Multporn or Yiffer returns after its loop:
\* return downloaded_count > 0
saved_any(count) == count > 0

\* Does download_by_tags(tags, max_pages, output_dir) hand the post to
\* download_file?
rule34_downloads(tags, on_disk, item) ==
    /\ "file_url" \in item.keys /\ "id" \in item.keys
    /\ file_path(tags, item) \notin on_disk

R34Frame ==
    UNCHANGED <<appvars, keyvars, downloaded_ids, page_approved, db_files, appended, prior,
                escaped, clientvars>>

\* _start_tag_download calls download_rule34_tags with tags, blacklist,
\* max_pages and db_file, and that calls download_by_tags with tags and
\* max_pages: page = 1
R34Start(tags, max_pages) ==
    /\ dl_pc = "idle" /\ runs < MaxRuns
    /\ job' = Job("rule34", tags, max_pages)
    /\ runs' = runs + 1
    /\ page' = 1
    /\ downloaded_count' = 0
    /\ attempted' = {}
    /\ requests' = 0
    /\ answer' = ""
    /\ dl_result' = <<>>
    /\ raised' = ""
    /\ last_message' = "Starting"
    /\ slept' = FALSE
    /\ dl_pc' = "loop"
    /\ posts' = <<>>
    /\ item_index' = 0
    /\ UNCHANGED <<config, iterations, files>>
    /\ R34Frame

\* The job returns what the loop was left with ("Download complete!"), or
\* FALSE from the handler ("Error: ...")
R34Return(value, message) ==
    /\ dl_pc' = "idle"
    /\ dl_result' = <<value>>
    /\ last_message' = message
    /\ slept' = FALSE
    /\ posts' = <<>>
    /\ item_index' = 0
    /\ UNCHANGED <<config, job, runs, attempted, files, downloaded_count>>
    /\ R34Frame

PageLimitReached_late == Truthy(job.max_pages) /\ page > job.max_pages[1] + 1

PageLimitReached == Truthy(job.max_pages) /\ page > job.max_pages[1]

\* if max_pages and page > max_pages: break
R34PageLimit ==
    /\ dl_pc = "loop" /\ job.site = "rule34"
    /\ PageLimitReached
    /\ UNCHANGED <<page, iterations, requests, answer, raised>>
    /\ R34Return(saved_any(downloaded_count), "Download complete")

R34Request ==
    /\ dl_pc = "loop" /\ job.site = "rule34" /\ iterations < MaxFetches
    /\ ~PageLimitReached
    /\ iterations' = iterations + 1
    /\ requests' = requests + 1

\* fetch_json returns None (a status other than 200: "none", or an exception
\* that fetch_json caught: "raises"), or an empty list ("empty")
R34FetchNothing(kind) ==
    /\ R34Request
    /\ answer' = IF kind = "empty" THEN "empty" ELSE "none"
    /\ raised' = IF kind = "raises" THEN "request" ELSE ""
    /\ UNCHANGED page
    /\ R34Return(saved_any(downloaded_count), "Download complete")

\* fetch_json returns a list of posts
R34FetchPage(listed) ==
    /\ R34Request
    /\ posts' = listed
    /\ item_index' = 1
    /\ dl_pc' = "item"
    /\ answer' = "items"
    /\ last_message' = "Found images"
    /\ slept' = FALSE
    /\ UNCHANGED <<config, job, page, runs, attempted, dl_result, files, downloaded_count,
                   raised>>
    /\ R34Frame

\* An exception leaves the loop (an item of the list that is no object)
R34Raises ==
    /\ dl_pc = "item" /\ job.site = "rule34"
    /\ raised' = "payload"
    /\ UNCHANGED <<page, iterations, requests, answer>>
    /\ R34Return(FALSE, "Error: ")

\* One iteration of the loop over the posts of the page. download_file
\* returns TRUE with the file written ("ok"), FALSE with nothing written
\* ("refused"), or FALSE with a part of the file written ("partial"), and
\* asyncio.sleep(0.3) follows it; a post that is skipped is followed by
\* nothing. After the last post: page += 1, and a page that is not full ends
\* the job.
R34Item(outcome) ==
    /\ dl_pc = "item" /\ job.site = "rule34"
    /\ LET item == posts[item_index]
           download == rule34_downloads(job.tags, files, item)
           count == IF download /\ outcome = "ok" THEN downloaded_count + 1
                    ELSE downloaded_count
           last == item_index = Len(posts)
       IN  /\ attempted' = IF download THEN attempted \cup {IntStr(item.id)} ELSE attempted
           /\ files' = IF download /\ outcome \in {"ok", "partial"}
                       THEN files \cup {file_path(job.tags, item)} ELSE files
           /\ downloaded_count' = count
           /\ page' = IF last THEN page + 1 ELSE page
           /\ IF last /\ Len(posts) < FullPage
              THEN /\ dl_pc' = "idle"
                   /\ dl_result' = <<saved_any(count)>>
                   /\ last_message' = "Download complete"
                   /\ slept' = FALSE
                   /\ posts' = <<>>
                   /\ item_index' = 0
              ELSE /\ dl_pc' = IF last THEN "loop" ELSE "item"
                   /\ slept' = (slept \/ download)
                   /\ last_message' = IF download THEN "Downloaded so far" ELSE last_message
                   /\ posts' = IF last THEN <<>> ELSE posts
                   /\ item_index' = IF last THEN 0 ELSE item_index + 1
                   /\ UNCHANGED dl_result
    /\ UNCHANGED <<config, job, runs, iterations, requests, answer, raised>>
    /\ R34Frame

R34Next ==
    \/ \E tags \in JobTags, max_pages \in JobPages : R34Start(tags, max_pages)
    \/ R34PageLimit
    \/ \E kind \in {"none", "raises", "empty"} : R34FetchNothing(kind)
    \/ \E listed \in R34Pages : R34FetchPage(listed)
    \/ R34Raises
    \/ \E outcome \in {"ok", "refused", "partial"} : R34Item(outcome)

-----------------------------------------------------------------------------
(* The Luscious downloader: LusciousDownloader.download_album, with the      *)
(* post_json, the download_file and the sanitize_filename of                 *)
(* BaseAsyncDownloader.                                                      *)

\* text.partition("_")[0]: what stands before the first "_"
partition_head(text) ==
    LET at == {i \in 1..Len(text) : text[i] = "_"}
    IN  IF at = {} THEN text
        ELSE SubSeq(text, 1, (CHOOSE i \in at : \A j \in at : i <= j) - 1)

\* text.rpartition("_")[2]: what stands after the last "_"
rpartition_tail(text) ==
    LET at == {i \in 1..Len(text) : text[i] = "_"}
    IN  IF at = {} THEN text
        ELSE SubSeq(text, (CHOOSE i \in at : \A j \in at : j <= i) + 1, Len(text))

\* url.split("/") of the URLs a user may enter: an album, an album URL
\* without its trailing slash, a picture of an album, another kind of page,
\* and an album URL without a name
LusUrls ==
    {<<"https:", "", "luscious.net", "albums", "t_7", "">>,
     <<"https:", "", "luscious.net", "albums", "t_7">>,
     <<"https:", "", "luscious.net", "pictures", "c", "t_7">>,
     <<"https:", "", "luscious.net", "videos", "t_7", "">>,
     <<"https:", "", "luscious.net", "albums", "", "">>}

\* The characters of a part of a URL
Chars(part) ==
    CASE part = "t_7" -> <<"t", "_", "7">>
      [] part = "" -> <<>>
      [] OTHER -> <<part>>

\* The (title, album_id) of a URL, or the message printed when it has none
parse_album_url(parts) ==
    IF Len(parts) < 6 THEN [error |-> "Invalid Luscious URL format"]
    ELSE IF parts[4] = "pictures"
    THEN [error |-> "", title |-> partition_head(Chars(parts[6])),
          album_id |-> rpartition_tail(Chars(parts[6]))]
    ELSE IF parts[4] \in {"album", "albums"}
    THEN [error |-> "", title |-> partition_head(Chars(parts[5])),
          album_id |-> rpartition_tail(Chars(parts[5]))]
    ELSE [error |-> "Unsupported Luscious URL type"]

\* A picture of the album: an item of the GraphQL answer
LusPicture(id, url) == [id |-> id, title |-> <<"p">>, url_to_original |-> url]

\* The pictures the upstream may list
LusPictures ==
    {LusPicture(1, SomeUrl \o <<".", "png">>),
     LusPicture(2, SomeUrl),
     LusPicture(3, <<>>)}

\* The non-empty lists of items an answer may hold, in the order of their ids
LusPages ==
    {listed \in UNION {[1..n -> LusPictures] : n \in 1..FullPage} :
        \A i, k \in 1..Len(listed) : i < k => listed[i].id < listed[k].id}

\* album_dir / f"{safe_image_title}_{image_id}.{file_ext}"
lus_file_path(title, item) ==
    [dir |-> sanitize_filename(title),
     name |-> sanitize_filename(item.title) \o <<"_">> \o IntStr(item.id) \o <<".">>
              \o file_ext(item.url_to_original)]

\* Does download_album hand the picture to download_file?
luscious_downloads(title, on_disk, item) ==
    /\ item.url_to_original # <<>>
    /\ lus_file_path(title, item) \notin on_disk

LusJob(url) == [site |-> "luscious", url |-> url]

LusFrame ==
    UNCHANGED <<appvars, keyvars, downloaded_ids, page_approved, db_files, appended, prior,
                escaped, clientvars>>

\* download_album is called: the URL is parsed; a URL that cannot be used is
\* printed about and download_album returns FALSE
LusStart(url) ==
    /\ dl_pc = "idle" /\ runs < MaxRuns
    /\ job' = LusJob(url)
    /\ runs' = runs + 1
    /\ page' = 1
    /\ downloaded_count' = 0
    /\ attempted' = {}
    /\ requests' = 0
    /\ answer' = ""
    /\ raised' = ""
    /\ posts' = <<>>
    /\ item_index' = 0
    /\ LET parsed == parse_album_url(url)
       IN  IF parsed.error # "" \/ parsed.album_id = <<>>
           THEN /\ dl_pc' = "idle"
                /\ dl_result' = <<FALSE>>
                /\ last_message' = "Analyzing URL"
           ELSE /\ dl_pc' = "loop"
                /\ dl_result' = <<>>
                /\ last_message' = "Downloading album"
    /\ slept' = FALSE
    /\ UNCHANGED <<config, iterations, files>>
    /\ LusFrame

\* The loop is left by break: "Download complete!", and the job returns
\* whether anything was downloaded. Or the handler of download_album caught an
\* exception: "Error: ...", FALSE.
LusReturn(value, message) ==
    /\ dl_pc' = "idle"
    /\ dl_result' = <<value>>
    /\ last_message' = message
    /\ slept' = FALSE
    /\ posts' = <<>>
    /\ item_index' = 0
    /\ UNCHANGED <<config, job, page, runs, attempted, files, downloaded_count>>
    /\ LusFrame

LusRequest ==
    /\ dl_pc = "loop" /\ job.site = "luscious" /\ iterations < MaxFetches
    /\ iterations' = iterations + 1
    /\ requests' = requests + 1

\* post_json returns None: a status other than 200, or an exception that
\* post_json caught
LusFetchNothing(error) ==
    /\ LusRequest
    /\ answer' = "none"
    /\ raised' = IF error THEN "request" ELSE ""
    /\ LusReturn(saved_any(downloaded_count), "Download complete")

\* The answer lacks a key (KeyError: the inner handler breaks) or is of
\* another shape (any other exception: the handler of download_album)
LusFetchMalformed(key_error) ==
    /\ LusRequest
    /\ answer' = "malformed"
    /\ raised' = "payload"
    /\ IF key_error THEN LusReturn(saved_any(downloaded_count), "Download complete")
       ELSE LusReturn(FALSE, "Error: ")

\* The answer holds total_pages and a list of items
LusFetchPage(total_pages, picture_items) ==
    /\ LusRequest
    /\ answer' = IF picture_items = <<>> THEN "empty" ELSE "items"
    /\ UNCHANGED raised
    /\ IF page > total_pages \/ picture_items = <<>>
       THEN LusReturn(saved_any(downloaded_count), "Download complete")
       ELSE /\ posts' = picture_items
            /\ item_index' = 1
            /\ dl_pc' = "item"
            /\ slept' = FALSE
            /\ UNCHANGED <<config, job, page, runs, attempted, dl_result, files,
                           downloaded_count, last_message>>
            /\ LusFrame

\* One iteration of the loop over the items. download_file returns TRUE with
\* the file written ("ok"), FALSE with nothing written ("refused"), or FALSE
\* with a part of the file written ("partial"), and asyncio.sleep(0.5)
\* follows it; an item that is skipped is followed by nothing. After the last
\* item: page += 1.
LusItem(outcome) ==
    /\ dl_pc = "item" /\ job.site = "luscious"
    /\ LET item == posts[item_index]
           title == parse_album_url(job.url).title
           download == luscious_downloads(title, files, item)
           last == item_index = Len(posts)
       IN  /\ attempted' = IF download THEN attempted \cup {IntStr(item.id)} ELSE attempted
           /\ files' = IF download /\ outcome \in {"ok", "partial"}
                       THEN files \cup {lus_file_path(title, item)} ELSE files
           /\ downloaded_count' = IF download /\ outcome = "ok" THEN downloaded_count + 1
                                  ELSE downloaded_count
           /\ last_message' = IF download THEN "Downloaded images" ELSE last_message
           /\ slept' = (slept \/ download)
           /\ page' = IF last THEN page + 1 ELSE page
           /\ dl_pc' = IF last THEN "loop" ELSE "item"
           /\ posts' = IF last THEN <<>> ELSE posts
           /\ item_index' = IF last THEN 0 ELSE item_index + 1
    /\ UNCHANGED <<config, job, runs, iterations, requests, answer, raised, dl_result>>
    /\ LusFrame

LusNext ==
    \/ \E url \in LusUrls : LusStart(url)
    \/ \E error \in BOOLEAN : LusFetchNothing(error)
    \/ \E key_error \in BOOLEAN : LusFetchMalformed(key_error)
    \/ \E total_pages \in 1..LusTotalPages, picture_items \in LusPages \cup {<<>>} :
           LusFetchPage(total_pages, picture_items)
    \/ \E outcome \in {"ok", "refused", "partial"} : LusItem(outcome)

-----------------------------------------------------------------------------
(* Specifications *)

vars == <<appvars, keyvars, dlvars, clientvars>>

KeyIdle == key_task = NoInput /\ key_variant = NoInput /\ key_edits = 0

AppIdle ==
    /\ HAS_ASYNC_DEPS = TRUE /\ loop_pc = "start" /\ config_manager = FALSE
    /\ tasks = <<>> /\ download_queue = <<>> /\ is_downloading = FALSE
    /\ current_download_info = NoTask /\ queue_listbox = <<>> /\ coroutines = {}
    /\ after_queue = <<>> /\ ui = <<>> /\ started = <<>> /\ removed = {}
    /\ completions = <<>>

\* No downloader is modelled: nothing running
DlIdle == DlInit /\ config.blacklisted_tags = <<>> /\ config.oneTimeDownload = TRUE

\* The downloaders are given the API key for the auth header of their
\* requests only, which is not modelled
NoKey == config.apiKey = <<>>

\* The application with its default configuration
Init == AppInit /\ KeyIdle /\ DlIdle /\ NoKey

Spec == Init /\ [][AppNext]_vars

\* The steps of the two event loops: the thread of the asyncio loop goes on, a
\* coroutine handed to the running loop ends (every downloader call returns
\* or raises), and the Tk event loop runs the root.after callbacks
Scheduled ==
    \/ LoopThread
    \/ \E t \in 1..MaxTasks, r \in BOOLEAN : CoroutineEnds(t, r)
    \/ AfterCallback

\* The application with its scheduling: the event loops do not stand still
\* for ever while they have a step to take, and no dialog stays open for ever
Fairness ==
    /\ WF_vars(Scheduled)
    /\ WF_vars(DismissError)
    /\ WF_vars(\E yes \in BOOLEAN : AnswerDialog(yes))

\* The inputs of the runs whose scheduling is followed to the end: tags that
\* pass, tags that bring up the question of _create_download_task, and two
\* URLs of one album site
LiveInputs ==
    {inp \in Inputs : inp.site \in TagSites => (inp.tags # <<"A", " ">> /\ inp.max_pages = <<>>)}

\* The jobs of such a run
LiveTasks == 2

LiveNext ==
    \/ LoopThread
    \/ Len(tasks) < LiveTasks /\ \E inp \in LiveInputs : AddToQueue(inp)
    \/ Len(tasks) < LiveTasks /\ \E inp \in LiveInputs : StartDownload(inp)
    \/ \E yes \in BOOLEAN : AnswerDialog(yes)
    \/ DismissError
    \/ ClearQueue
    \/ \E i \in 0..(Len(queue_listbox) - 1) : RemoveSelected(i)
    \/ \E t \in 1..MaxTasks, r \in BOOLEAN : CoroutineEnds(t, r)
    \/ AfterCallback

SpecLive == Init /\ [][LiveNext]_vars /\ Fairness

\* The application, with or without an API key in its configuration
InitConfigured == AppInit /\ KeyIdle /\ DlIdle

SpecConfigured == InitConfigured /\ [][AppNext]_vars

\* The identity key
InitKey == KeyInit /\ AppIdle /\ DlIdle /\ NoKey

\* The e621-family and Furbooru tag downloaders
InitFetcher == DlInit /\ NoKey /\ AppIdle /\ KeyIdle

SpecFetcher == InitFetcher /\ [][DlNext]_vars

\* The Rule34 tag downloader
InitRule34 == DlInit /\ NoKey /\ AppIdle /\ KeyIdle

SpecRule34 == InitRule34 /\ [][R34Next]_vars

SpecKey == InitKey /\ [][KeyNext]_vars

\* The HTTP methods of BaseAsyncDownloader
InitClient == DlIdle /\ NoKey /\ AppIdle /\ KeyIdle

SpecClient == InitClient /\ [][ClientNext]_vars

\* The Luscious album downloader
InitLuscious == DlInit /\ NoKey /\ AppIdle /\ KeyIdle

SpecLuscious == InitLuscious /\ [][LusNext]_vars

\* All the downloaders that work through pages, with a blacklist and a file
\* of seen IDs configured
InitPaged ==
    InitFetcher /\ config.blacklisted_tags = <<"bad">> /\ config.oneTimeDownload = TRUE

SpecPaged == InitPaged /\ [][DlNext \/ R34Next \/ LusNext]_vars

\* The tag downloaders of the e621 family and of Furbooru under the same
\* configuration, entered by download_by_tags or through their wrappers
WrappedNext ==
    \/ DlNext
    \/ \E site \in FetcherSites, tags \in JobTags, max_pages \in JobPages :
          download_tags(Job(site, tags, max_pages))

SpecWrapped == InitPaged /\ [][WrappedNext]_vars

-----------------------------------------------------------------------------
(* Properties of the job queue *)

TaskIds == 1..Len(tasks)

Downloading == {t \in TaskIds : tasks[t].status = "downloading"}

\* The current job followed by the queued jobs
Live == (IF current_download_info # NoTask THEN <<current_download_info>> ELSE <<>>)
        \o download_queue

\* C1 (single-flight): at most one job is started and not yet completed; that
\* job is the current one and is_downloading is set; at most one downloader
\* coroutine is scheduled, and it belongs to the current job.
C1_SingleFlight ==
    /\ Cardinality(Downloading) <= 1
    /\ \A t \in Downloading : is_downloading /\ current_download_info = t
    /\ Cardinality(coroutines) <= 1
    /\ coroutines \subseteq Downloading

\* A second and a third job were submitted while the first was running, and
\* the queue has moved on since
C1_Witness ==
    /\ Len(completions) >= 1
    /\ Downloading # {} /\ coroutines # {}
    /\ download_queue # <<>>

\* The jobs a task would be a duplicate of
DuplicatesOf(task) == {i \in 1..Len(Live) : TaskEq(task, tasks[Live[i]])}

\* The handler step for input inp in which the task has been created
CreatedStep(inp) ==
    \/ create_precheck(inp) = "go" /\ (AddToQueue(inp) \/ StartDownload(inp))
    \/ ui # <<>> /\ ui[Len(ui)].inp = inp /\ AnswerDialog(TRUE)

\* C2 (queue dedup): the current job and the queued jobs never hold two jobs
\* with the same identity key; a handler whose new job has the key of the
\* current or of a queued job leaves the current job, the queue and its order
\* unchanged and accepts nothing.
C2_QueueDedup ==
    /\ [](\A i, j \in 1..Len(Live) :
            i # j => get_unique_key(tasks[Live[i]]) # get_unique_key(tasks[Live[j]]))
    /\ [][\A inp \in Inputs :
            (HAS_ASYNC_DEPS /\ create_ok(inp) /\ DuplicatesOf(create_task(inp)) # {}
             /\ CreatedStep(inp))
            => UNCHANGED <<download_queue, current_download_info, tasks,
                           is_downloading>>]_vars

\* A job is running, another is queued, and their query texts are those the
\* normalisation identifies: both were offered again and turned away
C2_Witness ==
    /\ current_download_info # NoTask /\ download_queue # <<>>
    /\ \E inp \in Inputs :
          /\ create_ok(inp)
          /\ DuplicatesOf(create_task(inp)) = {1}
          /\ create_task(inp).tags # tasks[current_download_info].tags
    /\ \E inp \in Inputs : create_ok(inp) /\ DuplicatesOf(create_task(inp)) = {2}

\* C4 (immediate start): a handler that accepts a job while no job is running
\* leaves that job current, with status 'downloading' and is_downloading set.
C4_ImmediateStart ==
    [][(Len(tasks') > Len(tasks) /\ ~is_downloading)
        => /\ current_download_info' = Len(tasks')
           /\ is_downloading'
           /\ tasks'[Len(tasks')].status = "downloading"]_vars

\* C5 (no lost job): every accepted job is queued, current, completed or failed,
\* unless the user removed it from the queue.
C5_NoLostJob ==
    \A t \in TaskIds :
        \/ t \in Range(download_queue)
        \/ t = current_download_info
        \/ tasks[t].status \in {"completed", "failed"}
        \/ t \in removed

\* A step that runs _download_completed(task, success)
CompletionStep(t, success) ==
    \/ /\ after_queue # <<>>
       /\ Head(after_queue) = [task |-> t, success |-> success]
       /\ AfterCallback
    \/ /\ ui # <<>> /\ ui[Len(ui)].task = t /\ ~success
       /\ DismissError

\* C6 (completion): _download_completed for the current job records 'completed'
\* or 'failed'; with an empty queue it leaves the application idle; otherwise
\* it makes exactly the head of the queue current and starts it, the others
\* staying queued in order.
C6_Completion ==
    [][\A t \in TaskIds, success \in BOOLEAN :
        (t = current_download_info /\ CompletionStep(t, success))
        => /\ tasks'[t].status = (IF success THEN "completed" ELSE "failed")
           /\ \A u \in TaskIds \ ({t} \cup Range(download_queue)) : tasks'[u] = tasks[u]
           /\ IF download_queue = <<>>
              THEN ~is_downloading' /\ current_download_info' = NoTask
                   /\ started' = started /\ coroutines' = coroutines
              ELSE /\ current_download_info' = Head(download_queue)
                   /\ is_downloading'
                   /\ tasks'[Head(download_queue)].status = "downloading"
                   /\ download_queue' = Tail(download_queue)
                   /\ started' = Append(started, Head(download_queue))
                   /\ \A u \in Range(Tail(download_queue)) : tasks'[u] = tasks[u]
                   /\ (LoopRunning => coroutines' = coroutines \cup {Head(download_queue)})]_vars

\* A completion found two jobs queued and promoted the older one; another
\* completion found the queue empty
C6_Witness ==
    /\ \E i \in 1..Len(completions) :
          /\ completions[i].next # NoTask
          /\ completions[i].success
          /\ completions[i].next \in Range(started)
          /\ tasks[completions[i].task].status = "completed"
    /\ download_queue # <<>>
    /\ current_download_info # NoTask

\* C7 (remove and clear): neither touches the running job, its status or
\* is_downloading; clear_queue empties the queue; remove_selected_from_queue
\* removes nothing when the row of the current download is selected and at most
\* one queued job otherwise, keeping the order of the others.
C7_RemoveClear ==
    [][/\ ClearQueue
          => /\ UNCHANGED <<current_download_info, is_downloading, tasks, coroutines,
                            after_queue, started, completions>>
             /\ download_queue' = <<>>
       /\ \A i \in 0..(Len(queue_listbox) - 1) :
            RemoveSelected(i)
            => /\ UNCHANGED <<current_download_info, is_downloading, tasks, coroutines,
                              after_queue, started, completions>>
               /\ current_download_info \notin removed'
               /\ (current_download_info # NoTask /\ i = 0
                   => download_queue' = download_queue)
               /\ \/ download_queue' = download_queue
                  \/ \E k \in 1..Len(download_queue) :
                        download_queue' = SubSeq(download_queue, 1, k - 1)
                                          \o SubSeq(download_queue, k + 1,
                                                    Len(download_queue))]_vars

\* While a job runs, one queued job was removed and another is still queued
C7_Witness ==
    /\ current_download_info # NoTask
    /\ tasks[current_download_info].status = "downloading"
    /\ removed # {}
    /\ download_queue # <<>>

\* C20: a request with a configuration error is stopped before it starts: a
\* job for a credentialed site (e621, e6ai, e926, furbooru) never becomes the
\* current job while the configuration holds no API key for the site.
C20_NoJobWithoutCredentials ==
    (current_download_info # NoTask
     /\ tasks[current_download_info].site \in E6Sites \cup {"furbooru"})
        => config.apiKey # <<>>

\* The moves of the status of a job
StatusMove(a, b) ==
    \/ a = "pending" /\ b = "downloading"
    \/ a = "downloading" /\ b \in {"completed", "failed"}

\* C23: the status of a DownloadTask only moves pending -> downloading ->
\* completed or failed: a job is first seen pending or downloading, it is
\* never completed or failed without having been downloading, and once
\* completed or failed its status never changes.
C23_StatusMachine ==
    [][\A t \in 1..Len(tasks') :
          IF t <= Len(tasks)
          THEN tasks'[t].status = tasks[t].status
               \/ StatusMove(tasks[t].status, tasks'[t].status)
          ELSE tasks'[t].status \in {"pending", "downloading"}]_vars

\* A job that was downloading has completed and another has failed
C23_Witness ==
    \E t, u \in 1..Len(tasks) : tasks[t].status = "completed" /\ tasks[u].status = "failed"

\* The position of a job in a queue
PosIn(q, t) == CHOOSE i \in 1..Len(q) : q[i] = t

Queued(q) == {q[i] : i \in 1..Len(q)}

\* C24: the queue is first in, first out. No step changes the relative order
\* of the jobs that stay queued, a job that enters the queue enters behind
\* them, and the queued job that becomes current is the one at the head.
C24_Fifo ==
    [][/\ \A a, b \in Queued(download_queue) \cap Queued(download_queue') :
              PosIn(download_queue, a) < PosIn(download_queue, b)
                  => PosIn(download_queue', a) < PosIn(download_queue', b)
       /\ \A a \in Queued(download_queue') \ Queued(download_queue),
             b \in Queued(download_queue) \cap Queued(download_queue') :
              PosIn(download_queue', b) < PosIn(download_queue', a)
       /\ (current_download_info' # current_download_info
           /\ current_download_info' \in Queued(download_queue))
              => current_download_info' = Head(download_queue)]_vars

\* A job waits in the queue behind a running one that was taken from the head
\* of the queue when the job before it ended
C24_Witness ==
    /\ Len(download_queue) >= 1 /\ current_download_info # NoTask
    /\ Len(completions) >= 1
    /\ completions[Len(completions)].next = current_download_info

\* C27: the queue is work-conserving: whenever no handler of the application
\* is running (none is suspended in a dialog either) and no download is in
\* progress, no job waits in the queue.
C27_WorkConserving ==
    (ui = <<>> /\ ~is_downloading) => download_queue = <<>>

\* A completion has handed over to the job that waited, and later the
\* application came to rest with nothing queued
C27_Witness ==
    /\ ui = <<>> /\ ~is_downloading /\ download_queue = <<>>
    /\ \E i \in 1..Len(completions) : completions[i].next # NoTask

\* The tasks _download_completed was invoked for
Completed == {completions[i].task : i \in 1..Len(completions)}

\* No task is completed twice, and every completion clears the job it was
\* invoked for
CompletedOnce ==
    /\ \A i, k \in 1..Len(completions) :
          completions[i].task = completions[k].task => i = k
    /\ \A i \in 1..Len(completions) : completions[i].current = completions[i].task

\* C28: exactly-once completion: _download_completed is invoked at most once
\* for a job, always for the job that is current, and every job
\* _start_download_task made current is completed in the end, with no job
\* current any more, whatever its downloader does and also when the loop is
\* not available.
C28_ExactlyOnce ==
    /\ []CompletedOnce
    /\ <>[](/\ current_download_info = NoTask
            /\ \A k \in 1..Len(started) : started[k] \in Completed)

\* Two jobs were made current one after the other; one was completed with
\* success and one as failed
C28_Witness ==
    /\ Len(started) = 2 /\ Cardinality(Completed) = 2 /\ current_download_info = NoTask
    /\ \E i, k \in 1..Len(completions) : completions[i].success /\ ~completions[k].success

-----------------------------------------------------------------------------
(* Properties of the e621-family and Furbooru downloaders *)

\* The upstream item with an image_id (the ids of an upstream are distinct)
ItemOf(site, image_id) == CHOOSE item \in Upstream(site) : IntStr(item.id) = image_id

\* The tag categories consulted on a site of the e621 family
CollectedCategories(site) ==
    IF site = "e6ai" THEN {"general", "species", "character", "director", "meta"}
    ELSE {"general", "species", "character", "copyright", "artist"}

\* The collected tags of an item
CollectedTags(site, item) ==
    IF site = "furbooru" THEN Range(item.tags)
    ELSE UNION {Range(item.tags[c]) : c \in CollectedCategories(site)}

Blacklisted(item) == CollectedTags(job.site, item) \cap Range(job.blacklist) # {}

\* C8: an item of the e621 family or of Furbooru one of whose collected tags
\* (e621/e926: general, species, character, copyright, artist; e6ai: general,
\* species, character, director, meta; Furbooru: its tag list) is in the
\* blacklist is never passed to download_file, whether or not its ID is in
\* the seen-ID file.
C8_BlacklistInvariant ==
    \A image_id \in attempted : ~Blacklisted(ItemOf(job.site, image_id))

\* A page listed a blacklisted item next to another one; the page is done,
\* the other one went to download_file
C8_Witness ==
    /\ dl_pc = "sleep"
    /\ \E k, m \in 1..Len(posts) :
          /\ Blacklisted(posts[k])
          /\ IntStr(posts[m].id) \in attempted
          /\ ~Blacklisted(posts[m])

\* C10: with db_file truthy, an item whose ID an earlier job appended to the
\* seen-ID file of the site is never passed to download_file by a later job
\* for that site.
C10_CrossRunDedup ==
    job.db_file =>
        \A image_id \in attempted : [site |-> job.site, image_id |-> image_id] \notin prior

\* A later job is listed an item an earlier job of the site appended, next to
\* one it downloads; the page is done
C10_Witness ==
    /\ dl_pc = "sleep" /\ job.db_file
    /\ \E k, m \in 1..Len(posts) :
          /\ [site |-> job.site, image_id |-> IntStr(posts[k].id)] \in prior
          /\ IntStr(posts[m].id) \in attempted

\* C11: within one job with db_file truthy, download_file is called for an
\* item only if its ID is not in the seen-ID file of the site at that moment,
\* IDs appended earlier in the same job included: an ID listed again is not
\* downloaded, and not appended, a second time.
C11_WithinJobDedup ==
    [][(dl_pc = "download" /\ attempted' = attempted \cup {page_approved[item_index].image_id}
        /\ job.db_file)
       => [site |-> job.site, image_id |-> page_approved[item_index].image_id]
              \notin appended]_vars

\* One call of download_file by _download_page_images
DownloadStep == dl_pc = "download" /\ item_index' = item_index + 1

HasAddress(item) ==
    IF job.site = "furbooru" THEN item.representations.full # <<>>
    ELSE item.file.url # <<>>

\* An item the job accepts: visible, with an address, not blacklisted and,
\* with db_file, not in the seen-ID file
Accepted_item(item) ==
    /\ HasAddress(item)
    /\ job.site = "furbooru" => ~item.hidden_from_users
    /\ ~Blacklisted(item)
    /\ ~(job.db_file /\ [site |-> job.site, image_id |-> IntStr(item.id)] \in appended)

\* C13: with max_pages = N >= 1 the fetched page N is processed before the
\* loop stops: when the job has ended at its page limit, the accepted items of
\* the page it fetched last have been passed to download_file (with
\* max_pages = 1, those of page 1).
C13_LimitPageProcessed ==
    (dl_pc = "idle" /\ dl_result = <<TRUE>> /\ Truthy(job.max_pages)
        /\ page <= job.max_pages[1])
    => \A k \in 1..Len(posts) :
          Accepted_item(posts[k]) => IntStr(posts[k].id) \in attempted

\* C25: download_by_tags of the e621 family and of Furbooru returns TRUE on
\* every way out of its loop that is no exception leaving the loop: the API
\* limit message, an empty page, the page limit, and a page request that was
\* answered with another status than 200 or that failed, also when nothing
\* was downloaded.
C25_TrueAfterLoop ==
    (job.site \in FetcherSites /\ dl_pc = "idle" /\ dl_result # <<>>
     /\ raised \notin {"payload", "callback"})
        => dl_result = <<TRUE>>

\* The first page request of a job failed: nothing was downloaded and the job
\* returned TRUE
C25_Witness ==
    /\ job.site \in FetcherSites /\ dl_pc = "idle" /\ dl_result = <<TRUE>>
    /\ raised = "request" /\ requests = 1 /\ attempted = {}

\* C26: download_e621_tags and download_furbooru_tags, called as the queue's
\* coroutine calls them, construct the downloader and hand over to
\* download_by_tags: no job of these sites ends by the TypeError of the
\* constructor call, before its first request.
C26_WrapperRuns ==
    (job.site \in FetcherSites /\ dl_pc = "idle" /\ requests = 0)
        => raised # "TypeError"

-----------------------------------------------------------------------------
(* Properties of the Rule34 downloader *)

R34ItemOf(image_id) == CHOOSE item \in R34Posts : IntStr(item.id) = image_id

R34Blacklisted(item) == Range(item.tags) \cap Range(job.blacklist) # {}

\* C9: when download_rule34_tags is called with a blacklist, an item whose
\* tags include a blacklisted tag never reaches download_file, and no file
\* for it appears on disk.
C9_Rule34Blacklist ==
    /\ \A image_id \in attempted : ~R34Blacklisted(R34ItemOf(image_id))
    /\ \A item \in R34Posts : R34Blacklisted(item) => file_path(job.tags, item) \notin files

-----------------------------------------------------------------------------
(* Properties of the downloaders that work through pages *)

\* C14: a tag job of the e621 family, of Furbooru or of Rule34 that was given
\* max_pages = N makes at most N page-listing requests.
C14_PageBudget ==
    (job.site \in TagSites /\ Truthy(job.max_pages)) => requests <= job.max_pages[1]

\* A Rule34 job with max_pages = 2 made its two requests, and stopped at the
\* limit with iterations to spare
C14_Witness ==
    /\ dl_pc = "idle" /\ job.site = "rule34" /\ job.max_pages = <<2>>
    /\ requests = 2 /\ page = 3 /\ runs = 1 /\ iterations < MaxFetches

\* C15: when a page request of an e621-family, a Rule34 or a Luscious job is
\* answered with a page of no items, the job makes no further request and
\* returns, whether max_pages was given or not.
C15_EmptyPageEnds ==
    (job.site \in E6Sites \cup {"rule34", "luscious"} /\ answer = "empty")
        => (dl_pc = "idle" /\ dl_result # <<>>)

\* An e621-family job without max_pages was answered an empty page on its
\* second request, and returned with iterations to spare
C15_Witness ==
    /\ job.site \in E6Sites /\ job.max_pages = NoPages /\ answer = "empty"
    /\ requests = 2 /\ dl_pc = "idle" /\ iterations < MaxFetches

\* C16: when a page fetched by a Furbooru job without max_pages holds no
\* images, whatever its total says, the job stops and requests no further
\* page.
C16_FurbooruEmptyPageEnds ==
    (job.site = "furbooru" /\ job.max_pages = NoPages /\ answer = "empty")
        => (dl_pc = "idle" /\ dl_result # <<>>)

\* C17: when an exception was raised in the loop of a job, by a request or by
\* a payload of the wrong shape, the job has ended with "Error: ..." as its
\* last message and returned FALSE, and the exception did not leave the
\* entry point.
C17_ExceptionReported ==
    (dl_pc = "idle" /\ raised \in {"request", "payload"})
        => (dl_result = <<FALSE>> /\ last_message = "Error: " /\ ~escaped)

\* C18: a progress callback that raises changes neither what a job downloads
\* nor its result: a job of the e621 family or of Furbooru in which nothing
\* but the callback raised goes on, and does not return FALSE, and no
\* exception leaves it.
C18_CallbackHarmless ==
    (job.site \in FetcherSites /\ raised = "callback")
        => (~escaped /\ dl_result # <<FALSE>>)

\* C19: when download_album has returned FALSE, the last message it emitted
\* through the progress callback tells why: it is the "Error: ..." of the
\* handler or, at the least, the closing message that counts no saved image.
C19_FailureReported ==
    (job.site = "luscious" /\ dl_pc = "idle" /\ dl_result = <<FALSE>>)
        => last_message \in {"Error: ", "Download complete"}

\* C22: between two consecutive page-listing requests of one job of a
\* paginated downloader (e621 family, Furbooru, Rule34, Luscious) a rate-limit
\* sleep is awaited, also when every item of the page was skipped.
C22_SleepBetweenPages ==
    [][(requests' = requests + 1 /\ requests > 0) => slept]_vars

\* A job of Rule34 or of Luscious has returned
FileJobDone == job.site \in {"rule34", "luscious"} /\ dl_pc = "idle" /\ dl_result # <<>>

\* C30, as stated: a job of a downloader that skips the files it finds on
\* disk returns TRUE if and only if download_file saved at least one file in
\* this run (downloaded_count > 0).
C30_TrueIffDownloaded ==
    FileJobDone => dl_result = <<downloaded_count > 0>>

\* C30, amended: a job that was not ended by the exception handler of its
\* entry point returns TRUE if and only if download_file saved at least one
\* file in this run; a job that finds every item on disk returns FALSE.
C30_TrueIffDownloadedUnlessError ==
    (FileJobDone /\ last_message # "Error: ") => dl_result = <<downloaded_count > 0>>

\* The second Rule34 job of the same tags was answered a page of items, found
\* each of them on disk, called download_file for none and returned FALSE
C30_Witness ==
    /\ FileJobDone /\ job.site = "rule34" /\ runs = 2 /\ answer = "items"
    /\ raised = "" /\ attempted = {} /\ files # {} /\ downloaded_count = 0
    /\ dl_result = <<FALSE>> /\ last_message = "Download complete"

-----------------------------------------------------------------------------
(* Properties of the HTTP methods of BaseAsyncDownloader *)

Returned == client.pc = "idle" /\ client.result # ""

\* C21: fetch_page, fetch_json and post_json return None, and download_file
\* returns False, on every status other than 200 and on every exception of
\* the request or of the file write; none of them raises to its caller; and
\* what is not None or False is returned after a 200 response only.
C21_ClientContract ==
    Returned =>
        /\ client.result # "raised"
        /\ (client.failure # "" \/ client.status # 200)
               => client.result = Failing(client.method)
        /\ client.result \in {"value", "True"} => client.status = 200

\* download_file got a 200 response, failed while writing and returned False
C21_Witness ==
    /\ Returned /\ client.method = "download_file" /\ client.status = 200
    /\ client.failure = "body" /\ client.result = "False"

\* C29: a file that the downloaders of Rule34, Luscious, Multporn and Yiffer
\* find on disk, and skip, is one that download_file reported as downloaded:
\* when download_file returns False for a path at which no file existed, no
\* file exists at that path afterwards.
C29_NoFileAfterFailure ==
    [][(/\ client.pc = "requested" /\ client.method = "download_file"
        /\ client.path \notin client.files
        /\ client'.pc = "idle" /\ client'.result = "False")
            => client.path \notin client'.files]_vars

-----------------------------------------------------------------------------
(* Properties of the identity key *)

\* C3 (identity normalisation): a job and the same job with its query text
\* rewritten in letter case, in leading or trailing whitespace or (URL jobs) in
\* a final slash have the same identity key, for URL jobs as for tag jobs.
C3_KeyNormalised ==
    get_unique_key(create_task(key_task)) = get_unique_key(create_task(key_variant))

=============================================================================
